---- MODULE Spec2Model ----
(***************************************************************************)
(* Model of src/src/cursor.rs: the Cursor over a prepared SQLite           *)
(* statement.  The Cursor methods are translated from cursor.rs; the       *)
(* engine behind the `ffi` calls and the Database that owns the connection *)
(* are the environment the methods run against.                            *)
(*                                                                         *)
(* Integers: a 64-bit value (Rust `int` on a 64-bit build, `i64`) is a     *)
(* sequence of four 16-bit limbs <<l3, l2, l1, l0>>, most significant      *)
(* first, in two's complement; a 32-bit `c_int` is two limbs <<l1, l0>>.   *)
(* Text and blob contents are sequences of bytes.                          *)
(***************************************************************************)
EXTENDS Integers, Sequences, FiniteSets, TLC

\* ---------------------------------------------------------------- bounds
MaxRows == 2
MaxBlobLen == 2
MaxBind == 2
NCursors == 2

\* ---------------------------------------------------------------- integers
W == 2^16
H == 2^15
M == W - 1

\* A conversion that clamps to the 32-bit range instead of wrapping.
as_c_int_clamped(v) ==
  IF (v[1] = 0 /\ v[2] = 0 /\ v[3] < H) \/ (v[1] = M /\ v[2] = M /\ v[3] >= H)
  THEN <<v[3], v[4]>>
  ELSE IF v[1] >= H THEN <<H, 0>> ELSE <<H - 1, M>>

\* `x as c_int` (cursor.rs:313): keeps the low 32 bits of a 64-bit value.
as_c_int(v) == <<v[3], v[4]>>

\* `x as int` of a c_int (cursor.rs:142): sign extension to 64 bits.
as_int(c) == IF c[1] >= H THEN <<M, M, c[1], c[2]>> ELSE <<0, 0, c[1], c[2]>>

I_1 == <<0, 0, 0, 1>>
I_2 == <<0, 0, 0, 2>>
I_7 == <<0, 0, 0, 7>>
I_m1 == <<M, M, M, M>>
I_max32 == <<0, 0, H - 1, M>>
I_2p31 == <<0, 0, H, 0>>
I_min32m1 == <<M, M, H - 1, M>>
I_2p32p5 == <<0, 1, 0, 5>>

IntSamples == {I_1, I_m1, I_max32, I_2p31, I_min32m1, I_2p32p5}
Int64Samples == {I_1, I_2p31, I_2p32p5}

\* ---------------------------------------------------------------- bytes
Bytes == {0, 255}
RECURSIVE SeqsUpTo(_, _)
SeqsUpTo(S, n) ==
  IF n = 0 THEN {<<>>}
  ELSE LET shorter == SeqsUpTo(S, n - 1)
       IN  shorter \cup {Append(s, x) : s \in {t \in shorter : Len(t) = n - 1}, x \in S}

\* The texts "x" and "y"; a text holds no zero byte (bind_param hands a Text
\* to the engine through with_c_str, which takes no interior NUL).
B_x == <<120>>
B_y == <<121>>
F_1 == <<15>>

\* ---------------------------------------------------------------- BindArg
Text(v) == [tag |-> "Text", v |-> v]
StaticText(v) == [tag |-> "StaticText", v |-> v]
Blob(v) == [tag |-> "Blob", v |-> v]
Integer(v) == [tag |-> "Integer", v |-> v]
Integer64(v) == [tag |-> "Integer64", v |-> v]
Float64(v) == [tag |-> "Float64", v |-> v]
Null == [tag |-> "Null", v |-> <<>>]

BlobSamples == SeqsUpTo(Bytes, MaxBlobLen)
BindArgs ==
  {Text(<<>>), Text(B_x), StaticText(B_y), Float64(F_1), Null}
    \cup {Blob(b) : b \in BlobSamples}
    \cup {Integer(v) : v \in IntSamples}
    \cup {Integer64(v) : v \in Int64Samples}
SmallBindArgs == {Integer(I_1), Blob(<<>>), Blob(<<255>>)}

\* ---------------------------------------------------------------- engine values
EInt(v) == [t |-> 1, v |-> v]
EFloat(v) == [t |-> 2, v |-> v]
EText(v) == [t |-> 3, v |-> v]
EBlob(v) == [t |-> 4, v |-> v]
ENull == [t |-> 5, v |-> <<>>]
NullPtr == [null |-> TRUE, bytes |-> <<>>]
Ptr(b) == [null |-> FALSE, bytes |-> b]

\* The observer of a statement's run: `rets` are the results of the step_row
\* calls since the cursor was created or last reset, kept while `clean`: only
\* step_row has stepped the statement, every step returned ROW or DONE, DONE
\* was the last of them, the engine was never out of memory, and the bindings
\* were not cleared while the statement was running.  Unbound marks
\* a parameter whose value did not come from a single bind_param call.
Clean == [clean |-> TRUE, rets |-> <<>>]
Unbound == [tag |-> "?", v |-> <<>>]
Dirty == [clean |-> FALSE, rets |-> <<>>]
Observe(tr, rc, ret) ==
  IF /\ tr.clean
     /\ rc \in {"SQLITE_ROW", "SQLITE_DONE"}
     /\ (tr.rets = <<>> \/ tr.rets[Len(tr.rets)].some)
  THEN [tr EXCEPT !.rets = Append(@, ret)]
  ELSE Dirty

\* ---------------------------------------------------------------- statements
\* The prepared statements the cursor is exercised with:
\*   "table": SELECT id, name FROM t      (nrows rows: (1,"x"), (2,"y"), ...)
\*   "echo" : SELECT ?1 AS a              (one row holding the parameter)
\*   "pair" : SELECT ?1 AS a, ?2 AS b     (one row holding the two parameters)
\*   "dup"  : SELECT 7 AS a, ?1 AS b, 2 AS a
Statements == {"table", "echo", "pair", "dup"}

ColumnNames(sql) ==
  CASE sql = "table" -> <<"id", "name">>
    [] sql = "echo" -> <<"a">>
    [] sql = "pair" -> <<"a", "b">>
    [] sql = "dup" -> <<"a", "b", "a">>

NParams(sql) ==
  CASE sql = "table" -> 0
    [] sql = "echo" -> 1
    [] sql = "pair" -> 2
    [] sql = "dup" -> 1

NRowsOf(sql) == IF sql = "table" THEN 0 .. MaxRows ELSE {1}

RowOf(s, k) ==
  CASE s.sql = "table" ->
         <<EInt(<<0, 0, 0, k>>), EText(IF k % 2 = 1 THEN B_x ELSE B_y)>>
    [] s.sql = "echo" -> <<s.params[1]>>
    [] s.sql = "pair" -> <<s.params[1], s.params[2]>>
    [] s.sql = "dup" -> <<EInt(I_7), s.params[1], EInt(I_2)>>

CurrentRow(s) == RowOf(s, s.pos)

NoStmt ==
  [handle |-> "none", sql |-> "table", nrows |-> 0, params |-> <<>>,
   pos |-> 0, st |-> "ready", err |-> "SQLITE_OK"]

\* The statement a successful prepare hands to cursor_with_statement.
Prepared(sql, nrows) ==
  [handle |-> "valid", sql |-> sql, nrows |-> nrows,
   params |-> [k \in 1 .. NParams(sql) |-> ENull],
   pos |-> 0, st |-> "ready", err |-> "SQLITE_OK"]

\* ---------------------------------------------------------------- engine
\* One engine call in the log of an operation.
Call(fn, i, arg, rc) == [fn |-> fn, i |-> i, arg |-> arg, rc |-> rc]

StepFaults == {"none", "SQLITE_BUSY"}

\* sqlite3_step.  `fault` is an error the engine reports instead of running;
\* `restart` chooses what a step after DONE or after an error does without a
\* reset in between: the engine either restarts the statement or reports
\* MISUSE.
sqlite3_step(s, fault, restart) ==
  IF s.st \in {"done", "err"} /\ ~restart
  THEN [s |-> [s EXCEPT !.st = "err", !.err = "SQLITE_MISUSE"], rc |-> "SQLITE_MISUSE"]
  ELSE LET b == IF s.st \in {"done", "err"}
                THEN [s EXCEPT !.pos = 0, !.st = "ready", !.err = "SQLITE_OK"]
                ELSE s
       IN  IF fault # "none"
           THEN [s |-> [b EXCEPT !.st = "err", !.err = fault], rc |-> fault]
           ELSE IF b.pos < b.nrows
           THEN [s |-> [b EXCEPT !.pos = @ + 1, !.st = "row", !.err = "SQLITE_OK"],
                 rc |-> "SQLITE_ROW"]
           ELSE [s |-> [b EXCEPT !.st = "done", !.err = "SQLITE_OK"], rc |-> "SQLITE_DONE"]

\* sqlite3_reset: back to the start; reports the error of a failed last step.
sqlite3_reset(s) ==
  [s |-> [s EXCEPT !.pos = 0, !.st = "ready", !.err = "SQLITE_OK"],
   rc |-> IF s.st = "err" THEN s.err ELSE "SQLITE_OK"]

sqlite3_clear_bindings(s) ==
  [s |-> [s EXCEPT !.params = [k \in DOMAIN s.params |-> ENull]], rc |-> "SQLITE_OK"]

\* sqlite3_finalize: releases the handle; reports the error of a failed last step.
sqlite3_finalize(s) ==
  [s |-> [s EXCEPT !.handle = "finalized"],
   rc |-> IF s.st = "err" THEN s.err ELSE "SQLITE_OK"]

\* sqlite3_bind_*: MISUSE on a statement stepped and not reset, RANGE on an
\* index that is no parameter, NOMEM when the engine cannot copy the value.
sqlite3_bind(s, i, val, fault) ==
  IF s.st # "ready" THEN [s |-> s, rc |-> "SQLITE_MISUSE"]
  ELSE IF i < 1 \/ i > Len(s.params) THEN [s |-> s, rc |-> "SQLITE_RANGE"]
  ELSE IF fault THEN [s |-> s, rc |-> "SQLITE_NOMEM"]
  ELSE [s |-> [s EXCEPT !.params[i] = val], rc |-> "SQLITE_OK"]

\* sqlite3_bind_int takes a c_int and stores it as a 64-bit integer.
sqlite3_bind_int(s, i, c, fault) == sqlite3_bind(s, i, EInt(as_int(c)), fault)

sqlite3_data_count(s) == IF s.st = "row" THEN Len(ColumnNames(s.sql)) ELSE 0
sqlite3_column_name(s, i) == ColumnNames(s.sql)[i + 1]
sqlite3_column_type(s, i) == CurrentRow(s)[i + 1].t

\* sqlite3_column_int: the low 32 bits of an integer, 0 for NULL.
sqlite3_column_int(s, i) ==
  LET x == CurrentRow(s)[i + 1] IN IF x.t = 1 THEN <<x.v[3], x.v[4]>> ELSE <<0, 0>>

sqlite3_column_int64(s, i) ==
  LET x == CurrentRow(s)[i + 1] IN IF x.t = 1 THEN x.v ELSE <<0, 0, 0, 0>>

sqlite3_column_double(s, i) ==
  LET x == CurrentRow(s)[i + 1] IN IF x.t = 2 THEN x.v ELSE <<0>>

\* sqlite3_column_blob: a null pointer for NULL, for a zero-length value and
\* when the engine is out of memory.
sqlite3_column_blob(s, i, oom) ==
  LET x == CurrentRow(s)[i + 1]
  IN  IF x.t \in {3, 4} /\ Len(x.v) > 0 /\ ~oom THEN Ptr(x.v) ELSE NullPtr

\* sqlite3_column_text: a null pointer for NULL and when the engine is out of
\* memory; a zero-length text has a non-null pointer.
sqlite3_column_text(s, i, oom) ==
  LET x == CurrentRow(s)[i + 1]
  IN  IF x.t \in {3, 4} /\ ~oom THEN Ptr(x.v) ELSE NullPtr

sqlite3_column_bytes(s, i) ==
  LET x == CurrentRow(s)[i + 1] IN IF x.t \in {3, 4} THEN Len(x.v) ELSE 0

\* ---------------------------------------------------------------- Cursor methods
\* Each method is an operator from the statement's engine state (and the
\* environment's choices) to [s: the engine state after, calls: the engine
\* calls made, in order, ret: the value returned].
NoArg == ENull
None == [some |-> FALSE, v |-> <<>>]
Some(v) == [some |-> TRUE, v |-> v]

\* cursor.rs:73
reset(s) ==
  LET r == sqlite3_reset(s)
  IN  [s |-> r.s, calls |-> <<Call("sqlite3_reset", -1, NoArg, r.rc)>>, ret |-> r.rc]

\* cursor.rs:81
clear_bindings(s) ==
  LET r == sqlite3_clear_bindings(s)
  IN  [s |-> r.s, calls |-> <<Call("sqlite3_clear_bindings", -1, NoArg, r.rc)>>, ret |-> r.rc]

\* cursor.rs:89
step(s, fault, restart) ==
  LET r == sqlite3_step(s, fault, restart)
  IN  [s |-> r.s, calls |-> <<Call("sqlite3_step", -1, NoArg, r.rc)>>, ret |-> r.rc]

\* cursor.rs:127
get_blob(s, i, oom) ==
  LET ptr == sqlite3_column_blob(s, i, oom)
      len == sqlite3_column_bytes(s, i)
  IN  [calls |-> <<Call("sqlite3_column_blob", i, NoArg, "-"),
                   Call("sqlite3_column_bytes", i, NoArg, "-")>>,
       ret |-> IF ptr.null THEN None ELSE Some(SubSeq(ptr.bytes, 1, len))]

\* cursor.rs:140
get_int(s, i) ==
  [calls |-> <<Call("sqlite3_column_int", i, NoArg, "-")>>,
   ret |-> as_int(sqlite3_column_int(s, i))]

\* cursor.rs:148
get_i64(s, i) ==
  [calls |-> <<Call("sqlite3_column_int64", i, NoArg, "-")>>,
   ret |-> sqlite3_column_int64(s, i)]

\* cursor.rs:156
get_f64(s, i) ==
  [calls |-> <<Call("sqlite3_column_double", i, NoArg, "-")>>,
   ret |-> sqlite3_column_double(s, i)]

\* cursor.rs:164
get_text(s, i, oom) ==
  LET ptr == sqlite3_column_text(s, i, oom)
      len == sqlite3_column_bytes(s, i)
  IN  [calls |-> <<Call("sqlite3_column_text", i, NoArg, "-"),
                   Call("sqlite3_column_bytes", i, NoArg, "-")>>,
       ret |-> IF ptr.null THEN None ELSE Some(SubSeq(ptr.bytes, 1, len))]

\* cursor.rs:192
get_column_count(s) ==
  [calls |-> <<Call("sqlite3_data_count", -1, NoArg, "-")>>,
   ret |-> sqlite3_data_count(s)]

\* cursor.rs:200
get_column_name(s, i) ==
  [calls |-> <<Call("sqlite3_column_name", i, NoArg, "-")>>,
   ret |-> sqlite3_column_name(s, i)]

\* cursor.rs:210
get_column_type(s, i) ==
  LET ct == sqlite3_column_type(s, i)
  IN  [calls |-> <<Call("sqlite3_column_type", i, NoArg, "-")>>,
       ret |-> CASE ct = 1 -> "SQLITE_INTEGER"
                 [] ct = 2 -> "SQLITE_FLOAT"
                 [] ct = 3 -> "SQLITE_TEXT"
                 [] ct = 4 -> "SQLITE_BLOB"
                 [] ct = 5 -> "SQLITE_NULL"
                 [] OTHER -> "panic"]

\* cursor.rs:227
RECURSIVE get_column_names_loop(_, _, _, _, _)
get_column_names_loop(s, i, cnt, r, calls) ==
  IF i < cnt
  THEN LET n == get_column_name(s, i)
       IN  get_column_names_loop(s, i + 1, cnt, Append(r, n.ret), calls \o n.calls)
  ELSE [calls |-> calls, ret |-> r]

get_column_names(s) ==
  LET cnt == get_column_count(s)
  IN  get_column_names_loop(s, 0, cnt.ret, <<>>, cnt.calls)

\* HashMap::new and HashMap::insert (cursor.rs:101, 106): a map is a function
\* from the set of its keys; insert returns the value the key had, if any.
HashMap_new == [n \in {} |-> Null]
HashMap_insert(m, k, v) ==
  [map |-> [n \in DOMAIN m \cup {k} |-> IF n = k THEN v ELSE m[n]],
   res |-> IF k \in DOMAIN m THEN Some(m[k]) ELSE None]

\* What step_row leaves its caller with: Ok(Some(row)), Ok(None), Err(code) or
\* a panic (`why`, at column `at`).
RowOk(row) == [kind |-> "Ok", some |-> TRUE, row |-> row, code |-> "-", why |-> "-", at |-> -1]
RowNone == [kind |-> "Ok", some |-> FALSE, row |-> HashMap_new, code |-> "-", why |-> "-", at |-> -1]
RowErr(code) == [kind |-> "Err", some |-> FALSE, row |-> HashMap_new, code |-> code, why |-> "-", at |-> -1]
RowPanic(why, at) == [kind |-> "panic", some |-> FALSE, row |-> HashMap_new, code |-> "-", why |-> why, at |-> at]

\* The value of column i for the row map (cursor.rs:105-111): [calls, ok, v],
\* ok = FALSE when `.unwrap()` meets None.
column_value(s, i, coltype, oom) ==
  CASE coltype = "SQLITE_INTEGER" ->
         LET r == get_int(s, i) IN [calls |-> r.calls, ok |-> TRUE, v |-> Integer(r.ret)]
    [] coltype = "SQLITE_FLOAT" ->
         LET r == get_f64(s, i) IN [calls |-> r.calls, ok |-> TRUE, v |-> Float64(r.ret)]
    [] coltype = "SQLITE_TEXT" ->
         LET r == get_text(s, i, oom) IN [calls |-> r.calls, ok |-> r.ret.some, v |-> Text(r.ret.v)]
    [] coltype = "SQLITE_BLOB" ->
         LET r == get_blob(s, i, oom) IN [calls |-> r.calls, ok |-> r.ret.some, v |-> Blob(r.ret.v)]
    [] coltype = "SQLITE_NULL" ->
         [calls |-> <<>>, ok |-> TRUE, v |-> Null]

\* The while loop of step_row (cursor.rs:102-114); oomCol is the column at
\* which the engine is out of memory (-1: none).
assert_is_none(res) == ~res.some

RECURSIVE step_row_loop(_, _, _, _, _, _)
step_row_loop(s, i, column_cnt, sqlrow, calls, oomCol) ==
  IF i < column_cnt
  THEN LET name == get_column_name(s, i)
           coltype == get_column_type(s, i)
           c1 == calls \o name.calls \o coltype.calls
       IN  IF coltype.ret = "panic"
           THEN [calls |-> c1, ret |-> RowPanic("unknown_type", i)]
           ELSE LET val == column_value(s, i, coltype.ret, oomCol = i)
                    c2 == c1 \o val.calls
                IN  IF ~val.ok
                    THEN [calls |-> c2, ret |-> RowPanic("unwrap_none", i)]
                    ELSE LET ins == HashMap_insert(sqlrow, name.ret, val.v)
                         IN  IF ~assert_is_none(ins.res)
                             THEN [calls |-> c2, ret |-> RowPanic("assert_dup", i)]
                             ELSE step_row_loop(s, i + 1, column_cnt, ins.map, c2, oomCol)
  ELSE [calls |-> calls, ret |-> RowOk(sqlrow)]

\* A step_row that reports the end of the rows as an error.
step_row_done_is_err(s, fault, restart, oomCol) ==
  LET is_row == step(s, fault, restart)
  IN  IF is_row.ret = "SQLITE_ROW"
      THEN LET column_cnt == get_column_count(is_row.s)
               body == step_row_loop(is_row.s, 0, column_cnt.ret, HashMap_new,
                                     is_row.calls \o column_cnt.calls, oomCol)
           IN  [s |-> is_row.s, calls |-> body.calls, ret |-> body.ret]
      ELSE [s |-> is_row.s, calls |-> is_row.calls, ret |-> RowErr(is_row.ret)]

\* cursor.rs:96
step_row(s, fault, restart, oomCol) ==
  LET is_row == step(s, fault, restart)
  IN  IF is_row.ret = "SQLITE_ROW"
      THEN LET column_cnt == get_column_count(is_row.s)
               body == step_row_loop(is_row.s, 0, column_cnt.ret, HashMap_new,
                                     is_row.calls \o column_cnt.calls, oomCol)
           IN  [s |-> is_row.s, calls |-> body.calls, ret |-> body.ret]
      ELSE IF is_row.ret = "SQLITE_DONE"
      THEN [s |-> is_row.s, calls |-> is_row.calls, ret |-> RowNone]
      ELSE [s |-> is_row.s, calls |-> is_row.calls, ret |-> RowErr(is_row.ret)]

\* cursor.rs:254
bind_param(s, i, value, fault) ==
  LET l == Len(value.v)
      arg == CASE value.tag \in {"Text", "StaticText"} -> EText(SubSeq(value.v, 1, l))
               [] value.tag = "Blob" -> EBlob(SubSeq(value.v, 1, l))
               [] value.tag = "Integer" -> EInt(as_c_int(value.v))
               [] value.tag = "Integer64" -> EInt(value.v)
               [] value.tag = "Float64" -> EFloat(value.v)
               [] value.tag = "Null" -> ENull
      fn == CASE value.tag \in {"Text", "StaticText"} -> "sqlite3_bind_text"
              [] value.tag = "Blob" -> "sqlite3_bind_blob"
              [] value.tag = "Integer" -> "sqlite3_bind_int"
              [] value.tag = "Integer64" -> "sqlite3_bind_int64"
              [] value.tag = "Float64" -> "sqlite3_bind_double"
              [] value.tag = "Null" -> "sqlite3_bind_null"
      r == IF value.tag = "Integer"
           THEN sqlite3_bind_int(s, i, arg.v, fault)
           ELSE sqlite3_bind(s, i, arg, fault)
  IN  [s |-> r.s, calls |-> <<Call(fn, i, arg, r.rc)>>, ret |-> r.rc]

\* cursor.rs:239; failAt is the engine call (1 = first) that is out of
\* memory, 0 for none.
RECURSIVE bind_params_loop(_, _, _, _, _, _)
bind_params_loop(s, values, k, i, calls, failAt) ==
  IF k > Len(values)
  THEN [s |-> s, calls |-> calls, ret |-> "SQLITE_OK"]
  ELSE LET r == bind_param(s, i, values[k], failAt = k)
       IN  IF r.ret # "SQLITE_OK"
           THEN [s |-> r.s, calls |-> calls \o r.calls, ret |-> r.ret]
           ELSE bind_params_loop(r.s, values, k + 1, i + 1, calls \o r.calls, failAt)

\* A bind_params that goes on binding after a failed bind and returns the
\* first failure at the end.
RECURSIVE bind_params_keep_going_loop(_, _, _, _, _, _, _)
bind_params_keep_going_loop(s, values, k, i, calls, failAt, first) ==
  IF k > Len(values)
  THEN [s |-> s, calls |-> calls, ret |-> first]
  ELSE LET r == bind_param(s, i, values[k], failAt = k)
       IN  bind_params_keep_going_loop(r.s, values, k + 1, i + 1, calls \o r.calls, failAt,
                                       IF first = "SQLITE_OK" THEN r.ret ELSE first)

bind_params_keep_going(s, values, failAt) ==
  bind_params_keep_going_loop(s, values, 1, 1, <<>>, failAt, "SQLITE_OK")

bind_params(s, values, failAt) == bind_params_loop(s, values, 1, 1, <<>>, failAt)

\* A destructor that forgets the handle.
drop_leak(s) == [s |-> s, calls |-> <<>>, ret |-> "()"]

\* cursor.rs:61: the destructor; the code of sqlite3_finalize goes nowhere.
drop(s) ==
  LET r == sqlite3_finalize(s)
  IN  [s |-> r.s, calls |-> <<Call("sqlite3_finalize", -1, NoArg, r.rc)>>, ret |-> "()"]

\* ---------------------------------------------------------------- state
VARIABLES
  dbOpen,         \* the Database (connection) has not been released
  panicked,       \* the task is unwinding from a panic
  life,           \* life[c]: "none" (not created), "live", "dropped"
  eng,            \* eng[c]: the engine's state of the cursor's statement
  finalizeCount,  \* finalizeCount[c]: sqlite3_finalize calls on c's handle
  trace,          \* trace[c]: the step_row results since the last reset (see Clean)
  bound,          \* bound[c][i]: the BindArg that bind_param last bound at index i
  lastCall,       \* the last operation: its arguments, engine calls and result
  misuse          \* engine calls made on a finalized handle or a closed connection

vars == <<dbOpen, panicked, life, eng, finalizeCount, trace, bound, lastCall, misuse>>

CursorIds == 1 .. NCursors

Init ==
  /\ dbOpen = TRUE
  /\ panicked = FALSE
  /\ life = [c \in CursorIds |-> "none"]
  /\ eng = [c \in CursorIds |-> NoStmt]
  /\ finalizeCount = [c \in CursorIds |-> 0]
  /\ trace = [c \in CursorIds |-> Clean]
  /\ bound = [c \in CursorIds |-> <<>>]
  /\ lastCall = [op |-> "none", c |-> 0, args |-> <<>>, oom |-> -1, calls |-> <<>>, ret |-> "-"]
  /\ misuse = {}

\* A Cursor that holds the handle by value and borrows nothing.
NotBorrowed == FALSE

\* `_dbh: &'db *mut dbh` (cursor.rs:49): while a Cursor lives it borrows the
\* Database's handle, so the Database can be neither moved nor dropped.
Borrowed == \E c \in CursorIds : life[c] = "live"

\* A method call needs the Cursor value: one that was created, has not been
\* dropped, in a task that is not unwinding.
Usable(c) == life[c] = "live" /\ ~panicked

\* The bookkeeping of an operation `op` on cursor c that made `calls` and
\* left the statement in engine state s; `oom` is the column at which the
\* engine was out of memory during the operation (-1: none).
Record(c, op, args, oom, s, calls, ret) ==
  /\ eng' = [eng EXCEPT ![c] = s]
  /\ lastCall' = [op |-> op, c |-> c, args |-> args, oom |-> oom, calls |-> calls, ret |-> ret]
  /\ finalizeCount' =
       [finalizeCount EXCEPT ![c] =
          @ + Cardinality({k \in DOMAIN calls : calls[k].fn = "sqlite3_finalize"})]
  /\ misuse' = misuse
       \cup (IF calls # <<>> /\ eng[c].handle = "finalized" THEN {"after_finalize"} ELSE {})
       \cup (IF calls # <<>> /\ ~dbOpen THEN {"after_close"} ELSE {})

\* ---------------------------------------------------------------- actions
\* Database::prepare followed by cursor_with_statement (cursor.rs:52).
Prepare(c, sql, nrows) ==
  /\ dbOpen /\ ~panicked
  /\ life[c] = "none"
  /\ life' = [life EXCEPT ![c] = "live"]
  /\ eng' = [eng EXCEPT ![c] = Prepared(sql, nrows)]
  /\ lastCall' = [op |-> "cursor_with_statement", c |-> c, args |-> <<sql, nrows>>,
                  oom |-> -1, calls |-> <<>>, ret |-> "-"]
  /\ trace' = [trace EXCEPT ![c] = Clean]
  /\ bound' = [bound EXCEPT ![c] = [k \in 1 .. NParams(sql) |-> Unbound]]
  /\ UNCHANGED <<dbOpen, panicked, finalizeCount, misuse>>

Reset(c) ==
  /\ Usable(c)
  /\ LET r == reset(eng[c]) IN Record(c, "reset", <<>>, -1, r.s, r.calls, r.ret)
  /\ trace' = [trace EXCEPT ![c] = Clean]
  /\ UNCHANGED <<dbOpen, panicked, life, bound>>

ClearBindings(c) ==
  /\ Usable(c)
  /\ LET r == clear_bindings(eng[c]) IN Record(c, "clear_bindings", <<>>, -1, r.s, r.calls, r.ret)
  /\ bound' = [bound EXCEPT ![c] = [k \in DOMAIN @ |-> Unbound]]
  /\ trace' = [trace EXCEPT ![c] = IF eng[c].st = "ready" THEN @ ELSE Dirty]
  /\ UNCHANGED <<dbOpen, panicked, life>>

Step(c, fault, restart) ==
  /\ Usable(c)
  /\ LET r == step(eng[c], fault, restart)
     IN  Record(c, "step", <<>>, -1, r.s, r.calls, r.ret)
  /\ trace' = [trace EXCEPT ![c] = Dirty]
  /\ UNCHANGED <<dbOpen, panicked, life, bound>>

StepRow(c, fault, restart, oomCol) ==
  /\ Usable(c)
  /\ LET r == step_row(eng[c], fault, restart, oomCol)
     IN  /\ Record(c, "step_row", <<>>, oomCol, r.s, r.calls, r.ret)
         /\ trace' = [trace EXCEPT ![c] =
                        IF oomCol = -1 THEN Observe(@, r.calls[1].rc, r.ret) ELSE Dirty]
         /\ panicked' = (r.ret.kind = "panic")
  /\ UNCHANGED <<dbOpen, life, bound>>

BindParam(c, i, value, fault) ==
  /\ Usable(c)
  /\ LET r == bind_param(eng[c], i, value, fault)
     IN  /\ Record(c, "bind_param", <<i, value>>, -1, r.s, r.calls, r.ret)
         /\ bound' = IF r.ret = "SQLITE_OK" THEN [bound EXCEPT ![c][i] = value] ELSE bound
  /\ UNCHANGED <<dbOpen, panicked, life, trace>>

BindParams(c, values, failAt) ==
  /\ Usable(c)
  /\ LET r == bind_params(eng[c], values, failAt)
     IN  Record(c, "bind_params", <<values>>, -1, r.s, r.calls, r.ret)
  /\ bound' = [bound EXCEPT ![c] = [k \in DOMAIN @ |-> Unbound]]
  /\ UNCHANGED <<dbOpen, panicked, life, trace>>

\* The engine defines a column read only while a row is current and for an
\* index below the column count; its conversions between numbers and
\* text are left out, so a read is of a column of the accessor's own kind
\* or of a NULL.
Readable(c, i, types) ==
  /\ Usable(c)
  /\ eng[c].st = "row"
  /\ i < sqlite3_data_count(eng[c])
  /\ sqlite3_column_type(eng[c], i) \in types

GetBlob(c, i, oom) ==
  /\ Readable(c, i, {3, 4, 5})
  /\ LET r == get_blob(eng[c], i, oom)
     IN  Record(c, "get_blob", <<i>>, IF oom THEN i ELSE -1, eng[c], r.calls, r.ret)
  /\ UNCHANGED <<dbOpen, panicked, life, trace, bound>>

GetText(c, i, oom) ==
  /\ Readable(c, i, {3, 4, 5})
  /\ LET r == get_text(eng[c], i, oom)
     IN  Record(c, "get_text", <<i>>, IF oom THEN i ELSE -1, eng[c], r.calls, r.ret)
  /\ UNCHANGED <<dbOpen, panicked, life, trace, bound>>

GetInt(c, i) ==
  /\ Readable(c, i, {1, 5})
  /\ LET r == get_int(eng[c], i)
     IN  Record(c, "get_int", <<i>>, -1, eng[c], r.calls, r.ret)
  /\ UNCHANGED <<dbOpen, panicked, life, trace, bound>>

GetI64(c, i) ==
  /\ Readable(c, i, {1, 5})
  /\ LET r == get_i64(eng[c], i)
     IN  Record(c, "get_i64", <<i>>, -1, eng[c], r.calls, r.ret)
  /\ UNCHANGED <<dbOpen, panicked, life, trace, bound>>

GetColumnNames(c) ==
  /\ Usable(c)
  /\ LET r == get_column_names(eng[c])
     IN  Record(c, "get_column_names", <<>>, -1, eng[c], r.calls, r.ret)
  /\ UNCHANGED <<dbOpen, panicked, life, trace, bound>>

\* The Cursor goes out of scope, in normal flow or while the task unwinds:
\* Drop::drop runs (cursor.rs:61).
Drop(c) ==
  /\ life[c] = "live"
  /\ LET r == drop(eng[c]) IN Record(c, "drop", <<>>, -1, r.s, r.calls, r.ret)
  /\ life' = [life EXCEPT ![c] = "dropped"]
  /\ UNCHANGED <<dbOpen, panicked, trace, bound>>

\* The Database is released (its destructor closes the connection); the
\* borrow checker admits this only when no Cursor borrows it.
CloseConnection ==
  /\ dbOpen
  /\ ~Borrowed
  /\ dbOpen' = FALSE
  /\ lastCall' = [op |-> "close", c |-> 0, args |-> <<>>, oom |-> -1, calls |-> <<>>, ret |-> "-"]
  /\ UNCHANGED <<panicked, life, eng, finalizeCount, trace, bound, misuse>>

\* ---------------------------------------------------------------- specifications
ValueLists == SeqsUpTo({Integer(I_1), Text(B_x)}, MaxBind)

\* What a single bind is tried with, by statement: "echo" takes every value at
\* its one parameter; the others take a few values, at a valid and at an
\* invalid index, with and without the engine running out of memory.
ArgsFor(sql) == IF sql = "echo" THEN BindArgs ELSE SmallBindArgs
IndexesFor(sql) == IF sql = "echo" THEN {1} ELSE 1 .. 2
FaultsFor(sql) == IF sql = "echo" THEN {FALSE} ELSE BOOLEAN

\* One cursor, the full range of values.
Next ==
  \/ \E sql \in Statements : \E n \in NRowsOf(sql) : Prepare(1, sql, n)
  \/ Reset(1)
  \/ ClearBindings(1)
  \/ \E f \in StepFaults, re \in BOOLEAN : Step(1, f, re)
  \/ \E f \in StepFaults, re \in BOOLEAN, oc \in -1 .. 1 : StepRow(1, f, re, oc)
  \/ \E i \in IndexesFor(eng[1].sql), v \in ArgsFor(eng[1].sql), f \in FaultsFor(eng[1].sql) :
        BindParam(1, i, v, f)
  \/ \E vs \in ValueLists : \E k \in 0 .. Len(vs) : BindParams(1, vs, k)
  \/ \E i \in 0 .. 2, oom \in BOOLEAN : GetBlob(1, i, oom)
  \/ \E i \in 0 .. 2, oom \in BOOLEAN : GetText(1, i, oom)
  \/ \E i \in 0 .. 2 : GetInt(1, i)
  \/ \E i \in 0 .. 2 : GetI64(1, i)
  \/ GetColumnNames(1)
  \/ Drop(1)
  \/ CloseConnection

Spec == Init /\ [][Next]_vars

\* Several cursors on one connection, a small range of values.
NextLife ==
  \/ \E c \in CursorIds : Prepare(c, "table", 1)
  \/ \E c \in CursorIds : Reset(c)
  \/ \E c \in CursorIds : Step(c, "none", FALSE)
  \/ \E c \in CursorIds : StepRow(c, "none", FALSE, -1)
  \/ \E c \in CursorIds : BindParam(c, 1, Null, FALSE)
  \/ \E c \in CursorIds : GetInt(c, 0)
  \/ \E c \in CursorIds : Drop(c)
  \/ CloseConnection

SpecLife == Init /\ [][NextLife]_vars

\* ---------------------------------------------------------------- properties
\* The 32-bit range and the wrap to it, on limbs.
InRange32(v) ==
  \/ v[1] = 0 /\ v[2] = 0 /\ v[3] < H
  \/ v[1] = M /\ v[2] = M /\ v[3] >= H
Low32(v) == <<v[3], v[4]>>
Wrap32(v) == IF v[3] >= H THEN <<M, M, v[3], v[4]>> ELSE <<0, 0, v[3], v[4]>>

Names(s) == ColumnNames(s.sql)
DistinctNames(s) == \A i, j \in DOMAIN Names(s) : Names(s)[i] = Names(s)[j] => i = j
\* The 0-based index of the first column whose name an earlier column has.
SecondOfDuplicates(s) ==
  CHOOSE j \in 0 .. Len(Names(s)) - 1 :
    /\ \E i \in 0 .. j - 1 : Names(s)[i + 1] = Names(s)[j + 1]
    /\ \A j2 \in 0 .. j - 1 : \A i \in 0 .. j2 - 1 : Names(s)[i + 1] # Names(s)[j2 + 1]

FinalizeCalls == {k \in DOMAIN lastCall.calls : lastCall.calls[k].fn = "sqlite3_finalize"}
StepCalls == {k \in DOMAIN lastCall.calls : lastCall.calls[k].fn = "sqlite3_step"}

\* C1: sqlite3_finalize is called on a Cursor's statement handle exactly once,
\* by the drop of the Cursor and by nothing else, whatever was called before
\* and whatever it returned (a panic of step_row included), and no engine
\* call is made on the handle afterwards.
C1_FinalizeExactlyOnce ==
  /\ \A c \in CursorIds :
       /\ finalizeCount[c] = (IF life[c] = "dropped" THEN 1 ELSE 0)
       /\ (life[c] = "dropped") = (eng[c].handle = "finalized")
  /\ (FinalizeCalls # {} => lastCall.op = "drop")
  /\ "after_finalize" \notin misuse

\* C1 witness: a Cursor whose step_row panicked has been dropped and its
\* handle finalized once.
C1_Witness ==
  /\ panicked
  /\ life[1] = "dropped"
  /\ finalizeCount[1] = 1
  /\ lastCall.op = "drop"

\* C2: every engine call of a Cursor (finalize included) is made while the
\* connection is open: the connection is released only when every Cursor
\* created from it has been dropped and its handle finalized.
C2_ConnectionOutlivesCursors ==
  /\ "after_close" \notin misuse
  /\ ~dbOpen => \A c \in CursorIds : life[c] # "live" /\ eng[c].handle # "valid"

\* C2 witness: the connection is released after two Cursors were used and
\* dropped.
C2_Witness ==
  /\ ~dbOpen
  /\ \A c \in {1, 2} : life[c] = "dropped" /\ finalizeCount[c] = 1

\* The result code of the step call a step_row began with.
StepRc == lastCall.calls[1].rc

ExpectedBindFn(value) ==
  CASE value.tag \in {"Text", "StaticText"} -> "sqlite3_bind_text"
    [] value.tag = "Blob" -> "sqlite3_bind_blob"
    [] value.tag = "Integer" -> "sqlite3_bind_int"
    [] value.tag = "Integer64" -> "sqlite3_bind_int64"
    [] value.tag = "Float64" -> "sqlite3_bind_double"
    [] value.tag = "Null" -> "sqlite3_bind_null"
ExpectedBindArg(value) ==
  CASE value.tag \in {"Text", "StaticText"} -> EText(value.v)
    [] value.tag = "Blob" -> EBlob(value.v)
    [] value.tag = "Integer" -> EInt(Low32(value.v))
    [] value.tag = "Integer64" -> EInt(value.v)
    [] value.tag = "Float64" -> EFloat(value.v)
    [] value.tag = "Null" -> ENull

\* C5: bind_params(values) binds values[k] (0-based k) at index k+1, in order;
\* the first bind that is not OK ends it, its code is returned and no later
\* value is bound; OK is returned only when every bind was made and returned
\* OK (for the empty list: no bind, OK).
C5_BindParamsFailFast ==
  lastCall.op = "bind_params" =>
    LET values == lastCall.args[1]
        calls == lastCall.calls
        n == Len(calls)
    IN  /\ n <= Len(values)
        /\ \A k \in 1 .. n :
             /\ calls[k].i = k
             /\ calls[k].fn = ExpectedBindFn(values[k])
             /\ calls[k].arg = ExpectedBindArg(values[k])
        /\ \A k \in 1 .. n - 1 : calls[k].rc = "SQLITE_OK"
        /\ IF n > 0 /\ calls[n].rc # "SQLITE_OK"
           THEN lastCall.ret = calls[n].rc
           ELSE n = Len(values) /\ lastCall.ret = "SQLITE_OK"

\* C5 witness: the first of two binds failed; it was the only bind made and
\* its code was returned.
C5_Witness ==
  /\ lastCall.op = "bind_params"
  /\ Len(lastCall.args[1]) = 2
  /\ Len(lastCall.calls) = 1
  /\ lastCall.ret = "SQLITE_NOMEM"

\* The value an Integer bound as v reads back as.
ReadBack32(v) == IF InRange32(v) THEN v ELSE Wrap32(v)

\* C10: bind_param passes an Integer(v) to the engine as the 32-bit value of
\* v's low 32 bits and an Integer64(v) at its full width; get_int reads
\* a column as a signed 32-bit value; so Integer(v), bound and read back by
\* get_int or as the Integer entry of the step_row Row, is v exactly when v
\* is within -2^31 .. 2^31-1 and v wrapped to 32 bits otherwise.
C10_Integer32Bit ==
  LET c == lastCall.c
  IN  /\ lastCall.op = "bind_param" /\ lastCall.args[2].tag = "Integer" =>
           LET i == lastCall.args[1]
               v == lastCall.args[2].v
           IN  /\ lastCall.calls = <<Call("sqlite3_bind_int", i, EInt(Low32(v)), lastCall.ret)>>
               /\ lastCall.ret = "SQLITE_OK" => eng[c].params[i] = EInt(Wrap32(v))
      /\ lastCall.op = "bind_param" /\ lastCall.args[2].tag = "Integer64" =>
           LET i == lastCall.args[1]
               v == lastCall.args[2].v
           IN  /\ lastCall.calls = <<Call("sqlite3_bind_int64", i, EInt(v), lastCall.ret)>>
               /\ lastCall.ret = "SQLITE_OK" => eng[c].params[i] = EInt(v)
      /\ lastCall.op = "get_int" =>
           LET x == CurrentRow(eng[c])[lastCall.args[1] + 1]
           IN  x.t = 1 => lastCall.ret = Wrap32(x.v)
      /\ lastCall.op = "get_int" /\ eng[c].sql = "echo" /\ bound[c][1].tag = "Integer" =>
           /\ lastCall.ret = ReadBack32(bound[c][1].v)
           /\ (lastCall.ret = bound[c][1].v) = InRange32(bound[c][1].v)
      /\ /\ lastCall.op = "step_row"
         /\ lastCall.ret.kind = "Ok" /\ lastCall.ret.some
         /\ eng[c].sql = "echo" /\ bound[c][1].tag = "Integer"
         => lastCall.ret.row["a"] = Integer(ReadBack32(bound[c][1].v))

\* C10 witness: Integer(2^31), bound and read back by get_int, is -2^31.
C10_Witness ==
  /\ lastCall.op = "get_int"
  /\ eng[1].sql = "echo"
  /\ bound[1][1] = Integer(I_2p31)
  /\ lastCall.ret = <<M, M, H, 0>>

\* The Row entry expected for an engine value: the value under the tag of
\* its type, an integer as get_int reads it.
Tagged(x) ==
  CASE x.t = 1 -> Integer(Wrap32(x.v))
    [] x.t = 2 -> Float64(x.v)
    [] x.t = 3 -> Text(x.v)
    [] x.t = 4 -> Blob(x.v)
    [] x.t = 5 -> Null

\* The Row expected for the k-th row of a statement with distinct column
\* names: one entry per column, keyed by the column's name.
ExpectedRow(s, k) ==
  [n \in {Names(s)[j] : j \in DOMAIN Names(s)} |->
     Tagged(RowOf(s, k)[CHOOSE j \in DOMAIN Names(s) : Names(s)[j] = n])]

\* C4: for a statement that produces n rows with distinct column names and
\* then completes, consecutive step_row calls without a reset return
\* Some(m1), ..., Some(mn), None in that order, mk holding one entry per
\* column of the k-th row: the column's value under the tag of its type.
C4_RowSequence ==
  \A c \in CursorIds :
    life[c] = "live" /\ trace[c].clean /\ DistinctNames(eng[c]) =>
      /\ Len(trace[c].rets) <= eng[c].nrows + 1
      /\ \A k \in DOMAIN trace[c].rets :
           trace[c].rets[k] =
             IF k <= eng[c].nrows THEN RowOk(ExpectedRow(eng[c], k)) ELSE RowNone

\* The part of C4 that holds: with every Text and Blob value of the rows of
\* non-zero length.
NonEmptyValues(s) ==
  \A k \in 1 .. s.nrows : \A j \in DOMAIN Names(s) :
    RowOf(s, k)[j].t \in {3, 4} => Len(RowOf(s, k)[j].v) > 0

C4_RowSequenceNonEmpty ==
  \A c \in CursorIds :
    life[c] = "live" /\ trace[c].clean /\ DistinctNames(eng[c]) /\ NonEmptyValues(eng[c]) =>
      /\ Len(trace[c].rets) <= eng[c].nrows + 1
      /\ \A k \in DOMAIN trace[c].rets :
           trace[c].rets[k] =
             IF k <= eng[c].nrows THEN RowOk(ExpectedRow(eng[c], k)) ELSE RowNone

\* The two rows of the table statement followed by the end of the rows.
C4_TableRun ==
  /\ eng[1].sql = "table" /\ eng[1].nrows = 2
  /\ trace[1].clean
  /\ trace[1].rets =
       <<RowOk([n \in {"id", "name"} |-> IF n = "id" THEN Integer(I_1) ELSE Text(B_x)]),
         RowOk([n \in {"id", "name"} |-> IF n = "id" THEN Integer(I_2) ELSE Text(B_y)]),
         RowNone>>

\* The engine hands step_row a null data pointer for column j (0-based) of
\* the current row, of type Text or Blob: a zero-length Blob, or the engine
\* out of memory at j.
NullPointerAt(s, j, oom) ==
  LET x == CurrentRow(s)[j + 1]
  IN  \/ x.t = 4 /\ Len(x.v) = 0
      \/ x.t \in {3, 4} /\ oom = j

\* The engine handed the last get_text / get_blob a null data pointer.
AccessorGotNull ==
  LET s == eng[lastCall.c]
      i == lastCall.args[1]
  IN  IF lastCall.op = "get_blob"
      THEN sqlite3_column_blob(s, i, lastCall.oom = i).null
      ELSE sqlite3_column_text(s, i, lastCall.oom = i).null

\* C6: when the engine hands back a null data pointer for a column of type
\* Text or Blob, get_text / get_blob return the absent value and step_row
\* still returns Ok(Some(row)), with an entry for the column that is not Null,
\* instead of terminating fatally.  The step_row part is stated for the
\* zero-length values (the engine not out of memory).
C6_NullPointerDecoding ==
  LET c == lastCall.c
  IN  /\ lastCall.op \in {"get_text", "get_blob"} /\ AccessorGotNull => lastCall.ret = None
      /\ /\ lastCall.op = "step_row" /\ StepRc = "SQLITE_ROW" /\ lastCall.oom = -1
         /\ DistinctNames(eng[c])
         => \A j \in 0 .. Len(Names(eng[c])) - 1 :
              NullPointerAt(eng[c], j, lastCall.oom) =>
                /\ lastCall.ret.kind = "Ok" /\ lastCall.ret.some
                /\ lastCall.ret.row[Names(eng[c])[j + 1]] # Null

\* The part of C6 that holds: the accessors return the absent value.
C6_AccessorsReturnNone ==
  lastCall.op \in {"get_text", "get_blob"} /\ AccessorGotNull => lastCall.ret = None

\* C7: when step returns ROW and two columns have the same name, step_row
\* terminates by the assertion failure at the second of them (it returns
\* neither Ok nor Err); every Row it returns has column-count keys.  Stated
\* for the calls during which the engine is not out of memory.
C7_DuplicateNamesFatal ==
  LET c == lastCall.c
  IN  lastCall.op = "step_row" /\ StepRc = "SQLITE_ROW" /\ lastCall.oom = -1 =>
        /\ ~DistinctNames(eng[c]) =>
             lastCall.ret = RowPanic("assert_dup", SecondOfDuplicates(eng[c]))
        /\ lastCall.ret.kind = "Ok" =>
             Cardinality(DOMAIN lastCall.ret.row) = Len(Names(eng[c]))

\* The part of C7 that holds: with duplicate names step_row terminates
\* fatally at or before the second of them, and a returned Row has
\* column-count keys.
C7_DuplicateNamesNeverReturned ==
  LET c == lastCall.c
  IN  lastCall.op = "step_row" /\ StepRc = "SQLITE_ROW" =>
        /\ ~DistinctNames(eng[c]) =>
             /\ lastCall.ret.kind = "panic"
             /\ lastCall.ret.at <= SecondOfDuplicates(eng[c])
             /\ lastCall.ret.why = "assert_dup" => lastCall.ret.at = SecondOfDuplicates(eng[c])
        /\ lastCall.ret.kind = "Ok" =>
             Cardinality(DOMAIN lastCall.ret.row) = Len(Names(eng[c]))

\* The code rc of an engine call reached the caller of the last operation.
Surfaced(rc) ==
  IF lastCall.op = "step_row"
  THEN rc \in {"SQLITE_ROW", "SQLITE_DONE"} \/ lastCall.ret = RowErr(rc)
  ELSE lastCall.ret = rc

\* C8: reset, clear_bindings, step and bind_param make one engine call each
\* and return its code; no operation, the drop included, leaves a code that
\* is not OK unreturned.
C8_CodesPropagate ==
  /\ lastCall.op \in {"reset", "clear_bindings", "step", "bind_param"} =>
       Len(lastCall.calls) = 1 /\ lastCall.ret = lastCall.calls[1].rc
  /\ \A k \in DOMAIN lastCall.calls :
       lastCall.calls[k].rc \notin {"-", "SQLITE_OK"} => Surfaced(lastCall.calls[k].rc)

\* The part of C8 that holds: every operation but the drop.
C8_CodesPropagateButDrop ==
  lastCall.op # "drop" =>
    /\ lastCall.op \in {"reset", "clear_bindings", "step", "bind_param"} =>
         Len(lastCall.calls) = 1 /\ lastCall.ret = lastCall.calls[1].rc
    /\ \A k \in DOMAIN lastCall.calls :
         lastCall.calls[k].rc \notin {"-", "SQLITE_OK"} => Surfaced(lastCall.calls[k].rc)

\* C9: a Blob(b) bound to the parameter of the statement that selects it
\* reads back as b, the empty b included, through get_blob and as the Blob
\* entry of the step_row Row.  Stated for the calls during which the engine
\* is not out of memory.
C9_BlobRoundTrip ==
  LET c == lastCall.c
  IN  /\ /\ lastCall.op = "get_blob" /\ lastCall.oom = -1
         /\ eng[c].sql = "echo" /\ bound[c][1].tag = "Blob"
         => lastCall.ret = Some(bound[c][1].v)
      /\ /\ lastCall.op = "step_row" /\ StepRc = "SQLITE_ROW" /\ lastCall.oom = -1
         /\ eng[c].sql = "echo" /\ bound[c][1].tag = "Blob"
         => lastCall.ret = RowOk([n \in {"a"} |-> Blob(bound[c][1].v)])

\* The part of C9 that holds: the round trip of a Blob that is not empty.
C9_NonEmptyBlobRoundTrip ==
  LET c == lastCall.c
  IN  /\ /\ lastCall.op = "get_blob" /\ lastCall.oom = -1
         /\ eng[c].sql = "echo" /\ bound[c][1].tag = "Blob" /\ Len(bound[c][1].v) > 0
         => lastCall.ret = Some(bound[c][1].v)
      /\ /\ lastCall.op = "step_row" /\ StepRc = "SQLITE_ROW" /\ lastCall.oom = -1
         /\ eng[c].sql = "echo" /\ bound[c][1].tag = "Blob" /\ Len(bound[c][1].v) > 0
         => lastCall.ret = RowOk([n \in {"a"} |-> Blob(bound[c][1].v)])

====
